---- MODULE Spec2Model ----
(***************************************************************************)
(* A model of the bowman half-plane / triangulation engine.                *)
(*                                                                         *)
(*   src/bowman/halfplane.py   HalfPlane, Line, Circle                     *)
(*   src/triangulation.py      Triangle, Hinge, Triangulation              *)
(*                                                                         *)
(* Numbers are exact.  A rational is a normalised pair <<n, d>> with d > 0 *)
(* and gcd(n, d) = 1; a Radical is A + B*sqrt(C) with A, B, C rational.    *)
(* bowman.radical and bowman.polygon (Radical, Point, Edge) are imported   *)
(* by halfplane.py and are modelled from their documented contract.        *)
(***************************************************************************)
EXTENDS Integers, Sequences, FiniteSets, TLC

(***************************************************************************)
(* Bounds of the model.                                                    *)
(***************************************************************************)
\* half-plane coefficients a, b, c range over -CoefMax..CoefMax
CoefMax == 2
\* u coordinates of the points handed to the half-plane operations
PointMax == 3
\* coefficients of the half-planes that own and clip edges
ClipCoefMax == 1
\* u coordinates of the endpoints of the ideal edges first clipped
ClipPointMax == 2
\* clips in a row, each on an edge the clip before returned
MaxClips == 2
\* triangles of the triangulations whose gluing maps are enumerated
MaxGlued == 4
\* coordinates of the edge vectors of the triangles kept
VecMax == 2
\* entries of the matrices applied
MatMax == 1

(***************************************************************************)
(* Exact rational arithmetic (Sage's QQ).                                  *)
(***************************************************************************)
Abs(n) == IF n < 0 THEN -n ELSE n

Sgn(n) == IF n < 0 THEN -1 ELSE IF n = 0 THEN 0 ELSE 1

RECURSIVE Gcd(_, _)
Gcd(m, n) == IF n = 0 THEN m ELSE Gcd(n, m % n)

\* the rational n/d in lowest terms, d # 0
Frac(n, d) ==
    LET g == Gcd(Abs(n), Abs(d))
        s == IF d < 0 THEN -1 ELSE 1
    IN  <<(s * n) \div g, (s * d) \div g>>

Q(n) == <<n, 1>>

Zero == Q(0)

One == Q(1)

RAdd(x, y) == Frac(x[1] * y[2] + y[1] * x[2], x[2] * y[2])

RNeg(x) == <<-x[1], x[2]>>

RSub(x, y) == RAdd(x, RNeg(y))

RMul(x, y) == Frac(x[1] * y[1], x[2] * y[2])

\* x / y, y # 0
RDiv(x, y) == Frac(x[1] * y[2], x[2] * y[1])

RSign(x) == Sgn(x[1])

RLess(x, y) == RSign(RSub(x, y)) < 0

(***************************************************************************)
(* Radical(A, B, C): the exact number A + B*sqrt(C), C >= 0.               *)
(***************************************************************************)
Radical(A, B, C) == [A |-> A, B |-> B, C |-> C]

\* the sign of P + R*sqrt(C) for rationals P, R, C with C >= 0
SignPlusRoot(P, R, C) ==
    LET sp == RSign(P)
        sr == IF RSign(C) = 0 THEN 0 ELSE RSign(R)
    IN  IF sr = 0 THEN sp
        ELSE IF sp = 0 THEN sr
        ELSE IF sp = sr THEN sp
        ELSE sp * RSign(RSub(RMul(P, P), RMul(RMul(R, R), C)))

\* the sign of Radical.value
RadicalSign(r) == SignPlusRoot(r.A, r.B, r.C)

\* the sign of r1 - r2 = (D + B1*sqrt(C1)) - B2*sqrt(C2), D = A1 - A2: when the
\* two terms X and Y have the same sign s it is s * sign(X^2 - Y^2)
RadicalCompare(r1, r2) ==
    LET D == RSub(r1.A, r2.A)
        sX == SignPlusRoot(D, r1.B, r1.C)
        sY == SignPlusRoot(Zero, r2.B, r2.C)
        X2 == RAdd(RMul(D, D), RMul(RMul(r1.B, r1.B), r1.C))
        Y2 == RMul(RMul(r2.B, r2.B), r2.C)
    IN  IF sX # sY THEN Sgn(sX - sY)
        ELSE IF sX = 0 THEN 0
        ELSE sX * SignPlusRoot(RSub(X2, Y2), RMul(RMul(Q(2), D), r1.B), r1.C)

\* r1 < r2
RadicalLess(r1, r2) == RadicalCompare(r1, r2) < 0

(***************************************************************************)
(* bowman.polygon: Point and Edge, immutable tuples.                       *)
(*   Point(u, v): u a Radical (a plain number n is held as Radical(n,0,0)) *)
(*   or the sentinel oo; Edge(halfplane, start, end), ideal iff it has no  *)
(*   owning half-plane.                                                    *)
(***************************************************************************)
None == [kind |-> "None"]

\* Point(n, v) for a plain rational number n
Point(n, v) == [kind |-> "Point", inf |-> FALSE, u |-> Radical(n, Zero, Zero), v |-> v]

\* Point(Radical(A, B, C), v)
PointRadical(r, v) == [kind |-> "Point", inf |-> FALSE, u |-> r, v |-> v]

\* Point(oo, 0)
PointInfinity == [kind |-> "Point", inf |-> TRUE, u |-> Radical(Zero, Zero, Zero), v |-> Zero]

is_infinity(p) == p.inf

Edge(halfplane, start, end) ==
    [kind |-> "Edge", halfplane |-> halfplane, start |-> start, end |-> end]

is_ideal(edge) == edge.halfplane = None

\* Point._plug_point_into_halfplane(point, hp): a*(u^2 + v^2) + b*u + c for
\* u = A + B*sqrt(C), as the Radical P + R*sqrt(C)
plug_point_into_halfplane(p, hp) ==
    LET A == p.u.A
        B == p.u.B
        C == p.u.C
        u2 == RAdd(RMul(A, A), RMul(RMul(B, B), C))
        P == RAdd(RAdd(RMul(Q(hp.a), RAdd(u2, RMul(p.v, p.v))), RMul(Q(hp.b), A)), Q(hp.c))
        R == RAdd(RMul(RMul(Q(2 * hp.a), A), B), RMul(Q(hp.b), B))
    IN  Radical(P, R, C)

\* the position of p on the boundary circle of the upper half-plane, oo last
BoundaryLess(p, q) ==
    IF p.inf THEN FALSE
    ELSE IF q.inf THEN TRUE
    ELSE RadicalLess(p.u, q.u)

\* Point.CCW(p1, p2, p3): the three boundary points are met in this cyclic
\* order when the boundary is run through in the increasing direction
CCW(p1, p2, p3) ==
    \/ BoundaryLess(p1, p2) /\ BoundaryLess(p2, p3)
    \/ BoundaryLess(p2, p3) /\ BoundaryLess(p3, p1)
    \/ BoundaryLess(p3, p1) /\ BoundaryLess(p1, p2)

(***************************************************************************)
(* src/bowman/halfplane.py                                                 *)
(***************************************************************************)
Line(a, b, c) == [kind |-> "Line", a |-> a, b |-> b, c |-> c]

Circle(a, b, c) == [kind |-> "Circle", a |-> a, b |-> b, c |-> c]

ValueError(msg) == [kind |-> "ValueError", msg |-> msg]

IsHalfPlane(x) == x.kind \in {"Line", "Circle"}

\* from_ineq accepting a zero discriminant (b^2 - 4ac >= 0)
from_ineq_zero_disc(a, b, c) ==
    IF a = 0 /\ b # 0 THEN Line(a, b, c)
    ELSE IF a # 0 /\ (b * b - 4 * a * c) >= 0 THEN Circle(a, b, c)
    ELSE ValueError("Coeffs determine a degenerate inequality")

\* HalfPlane.from_ineq
from_ineq(a, b, c) ==
    IF a = 0 /\ b # 0 THEN Line(a, b, c)
    ELSE IF a # 0 /\ (b * b - 4 * a * c) > 0 THEN Circle(a, b, c)
    ELSE ValueError("Coeffs determine a degenerate inequality")

\* Circle.center
center(hp) == Point(Frac(-hp.b, 2 * hp.a), Zero)

\* Circle.radius2
radius2(hp) == Frac(hp.b * hp.b - 4 * hp.a * hp.c, 4 * hp.a * hp.a)

\* the last two lines of HalfPlane.contains_point: a point that is not oo
contains_real_point(hp, p, on_boundary) ==
    LET result == RadicalSign(plug_point_into_halfplane(p, hp))
    IN  result = 0 \/ (~on_boundary /\ result > 0)

\* is_oriented with the Line test reversed (b > 0)
is_oriented_reversed(hp) ==
    IF hp.kind = "Line" THEN hp.b > 0
    ELSE contains_real_point(hp, center(hp), FALSE)

\* Line.is_oriented, Circle.is_oriented
is_oriented(hp) ==
    IF hp.kind = "Line" THEN hp.b < 0
    ELSE contains_real_point(hp, center(hp), FALSE)

\* HalfPlane.contains_point
contains_point(hp, p, on_boundary) ==
    IF is_infinity(p)
    THEN IF ~on_boundary THEN hp.kind = "Line" \/ ~is_oriented(hp)
         ELSE hp.kind = "Line"
    ELSE contains_real_point(hp, p, on_boundary)

\* Line.start, Circle.start
start(hp) ==
    IF hp.kind = "Line"
    THEN IF is_oriented(hp) THEN Point(Frac(-hp.c, hp.b), Zero) ELSE PointInfinity
    ELSE LET plus_or_minus == IF is_oriented(hp) THEN 1 ELSE -1
         IN  PointRadical(Radical(center(hp).u.A, Q(plus_or_minus), radius2(hp)), Zero)

\* Line.end, Circle.end
end(hp) ==
    IF hp.kind = "Line"
    THEN IF is_oriented(hp) THEN PointInfinity ELSE Point(Frac(-hp.c, hp.b), Zero)
    ELSE LET plus_or_minus == IF is_oriented(hp) THEN -1 ELSE 1
         IN  PointRadical(Radical(center(hp).u.A, Q(plus_or_minus), radius2(hp)), Zero)

\* Line.endpoint_real
endpoint_real(hp) == IF is_oriented(hp) THEN start(hp) ELSE end(hp)

\* _point_inside stepping from the start of an unoriented Circle, not its end
point_inside_from_start(hp) ==
    IF hp.kind = "Line"
    THEN LET A == endpoint_real(hp).u.A
         IN  IF is_oriented(hp) THEN Point(RSub(A, One), Zero) ELSE Point(RAdd(A, One), Zero)
    ELSE IF is_oriented(hp) THEN center(hp)
         ELSE LET u == start(hp).u
              IN  PointRadical(Radical(RAdd(u.A, One), u.B, u.C), Zero)

\* Line._point_inside, Circle._point_inside
point_inside(hp) ==
    IF hp.kind = "Line"
    THEN LET A == endpoint_real(hp).u.A
         IN  IF is_oriented(hp) THEN Point(RSub(A, One), Zero) ELSE Point(RAdd(A, One), Zero)
    ELSE IF is_oriented(hp) THEN center(hp)
         ELSE LET u == end(hp).u
              IN  PointRadical(Radical(RAdd(u.A, One), u.B, u.C), Zero)

\* Line._point_outside, Circle._point_outside
point_outside(hp) ==
    IF hp.kind = "Line"
    THEN LET A == endpoint_real(hp).u.A
         IN  IF is_oriented(hp) THEN Point(RAdd(A, One), Zero) ELSE Point(RSub(A, One), Zero)
    ELSE IF is_oriented(hp)
         THEN LET u == start(hp).u
              IN  PointRadical(Radical(RAdd(u.A, One), u.B, u.C), Zero)
         ELSE center(hp)

\* intersect_boundaries looking at the matrix before the two-Lines case
intersect_boundaries_matrix_first(self, other) ==
    LET det == self.a * other.b - self.b * other.a
    IN  IF det = 0 THEN None
        ELSE IF self.kind = "Line" /\ other.kind = "Line" THEN PointInfinity
        ELSE LET u2_plus_v2 == Frac(self.b * other.c - self.c * other.b, det)
                 u == Frac(self.c * other.a - self.a * other.c, det)
                 v2 == RSub(u2_plus_v2, RMul(u, u))
             IN  IF RSign(v2) < 0 THEN None ELSE Point(u, v2)

\* HalfPlane.intersect_boundaries
intersect_boundaries(self, other) ==
    IF self.kind = "Line" /\ other.kind = "Line" THEN PointInfinity
    ELSE LET det == self.a * other.b - self.b * other.a
         IN  IF det = 0 THEN None
             ELSE LET u2_plus_v2 == Frac(self.b * other.c - self.c * other.b, det)
                      u == Frac(self.c * other.a - self.a * other.c, det)
                      v2 == RSub(u2_plus_v2, RMul(u, u))
                  IN  IF RSign(v2) < 0 THEN None ELSE Point(u, v2)

\* _intersect_edge_real putting the intersection point first whichever
\* endpoint is the contained one
intersect_edge_real_point_first(self, edge) ==
    LET contains_start == contains_point(self, edge.start, FALSE)
        contains_end == contains_point(self, edge.end, FALSE)
        edge_intersect_boundary == intersect_boundaries(self, edge.halfplane)
    IN  IF contains_start /\ contains_end THEN <<edge>>
        ELSE IF ~(contains_start \/ contains_end) THEN <<>>
        ELSE IF contains_start
             THEN <<Edge(edge.halfplane, edge_intersect_boundary, edge.start)>>
             ELSE <<Edge(edge.halfplane, edge_intersect_boundary, edge.end)>>

\* HalfPlane._intersect_edge_real
intersect_edge_real(self, edge) ==
    LET contains_start == contains_point(self, edge.start, FALSE)
        contains_end == contains_point(self, edge.end, FALSE)
        edge_intersect_boundary == intersect_boundaries(self, edge.halfplane)
    IN  IF contains_start /\ contains_end THEN <<edge>>
        ELSE IF ~(contains_start \/ contains_end) THEN <<>>
        ELSE IF contains_start
             THEN <<Edge(edge.halfplane, edge.start, edge_intersect_boundary)>>
             ELSE <<Edge(edge.halfplane, edge_intersect_boundary, edge.end)>>

\* _intersect_edge_ideal clipping to self.end when edge.start is the one contained
intersect_edge_ideal_wrong_end(self, edge) ==
    LET includes_edge_start == contains_point(self, edge.start, FALSE)
        includes_edge_end == contains_point(self, edge.end, FALSE)
    IN  IF includes_edge_start /\ includes_edge_end
        THEN IF CCW(edge.start, edge.end, point_outside(self)) THEN <<edge>>
             ELSE <<Edge(None, edge.start, start(self)), Edge(None, end(self), edge.end)>>
        ELSE IF includes_edge_start # includes_edge_end
             THEN IF includes_edge_start THEN <<Edge(None, edge.start, end(self))>>
                  ELSE <<Edge(None, end(self), edge.end)>>
             ELSE IF CCW(edge.start, edge.end, point_inside(self)) THEN <<>>
                  ELSE <<Edge(None, end(self), start(self))>>

\* HalfPlane._intersect_edge_ideal
intersect_edge_ideal(self, edge) ==
    LET includes_edge_start == contains_point(self, edge.start, FALSE)
        includes_edge_end == contains_point(self, edge.end, FALSE)
    IN  IF includes_edge_start /\ includes_edge_end
        THEN IF CCW(edge.start, edge.end, point_outside(self)) THEN <<edge>>
             ELSE <<Edge(None, edge.start, start(self)), Edge(None, end(self), edge.end)>>
        ELSE IF includes_edge_start # includes_edge_end
             THEN IF includes_edge_start THEN <<Edge(None, edge.start, start(self))>>
                  ELSE <<Edge(None, end(self), edge.end)>>
             ELSE IF CCW(edge.start, edge.end, point_inside(self)) THEN <<>>
                  ELSE <<Edge(None, end(self), start(self))>>

\* HalfPlane.intersect_edge
intersect_edge(self, edge) ==
    IF is_ideal(edge) THEN intersect_edge_ideal(self, edge)
    ELSE intersect_edge_real(self, edge)

(***************************************************************************)
(* src/triangulation.py                                                    *)
(*   a vector is <<x, y>>, a matrix <<<<m11, m12>>, <<m21, m22>>>>;        *)
(*   Triangle.edges maps 0..2 to vectors; Triangulation.triangles maps     *)
(*   0..n-1 to Triangles and gluings maps (triangle, edge) pairs to pairs. *)
(***************************************************************************)
VecAdd(v, w) == <<v[1] + w[1], v[2] + w[2]>>

VecNeg(v) == <<-v[1], -v[2]>>

\* M * v
MatVec(M, v) == <<M[1][1] * v[1] + M[1][2] * v[2], M[2][1] * v[1] + M[2][2] * v[2]>>

\* matrix([v, w]).determinant()
Det2(v, w) == v[1] * w[2] - v[2] * w[1]

\* matrix([r1, r2, r3]).determinant()
Det3(r1, r2, r3) ==
    r1[1] * (r2[2] * r3[3] - r2[3] * r3[2])
    - r1[2] * (r2[1] * r3[3] - r2[3] * r3[1])
    + r1[3] * (r2[1] * r3[2] - r2[2] * r3[1])

IsError(x) == x.kind \in {"ValueError", "KeyError", "AttributeError"}

\* Triangle.__init__ letting a flat triple through (determinant < 0 refused only)
TriangleInitFlat(edges) ==
    IF VecAdd(VecAdd(edges[0], edges[1]), edges[2]) # <<0, 0>>
    THEN ValueError("sides do not close up")
    ELSE IF Det2(edges[0], VecNeg(edges[2])) < 0
    THEN ValueError("sides are not oriented correctly")
    ELSE [kind |-> "Triangle", edges |-> edges]

\* Triangle.__init__: the Triangle, or the error raised
TriangleInit(edges) ==
    IF VecAdd(VecAdd(edges[0], edges[1]), edges[2]) # <<0, 0>>
    THEN ValueError("sides do not close up")
    ELSE IF Det2(edges[0], VecNeg(edges[2])) <= 0
    THEN ValueError("sides are not oriented correctly")
    ELSE [kind |-> "Triangle", edges |-> edges]

\* Triangle.apply_matrix
TriangleApplyMatrix(triangle, M) ==
    TriangleInit([i \in 0..2 |-> MatVec(M, triangle.edges[i])])

\* Hinge.__init__
Hinge(v0, v1, v2) == [kind |-> "Hinge", vectors |-> <<v0, v1, v2>>]

\* Hinge._from_triangles taking its first vector after label_e1, not label_e2
HingeFromTrianglesOwnLabel(triangle1, label_e1, triangle2, label_e2) ==
    LET edge1 == triangle1.edges[label_e1]
        edge2 == triangle2.edges[label_e2]
    IN  IF edge1 # VecNeg(edge2)
        THEN ValueError("Edges are either nonparallel or oriented incorrectly")
        ELSE Hinge(triangle2.edges[(label_e1 + 1) % 3],
                   edge1,
                   VecNeg(triangle1.edges[(label_e1 - 1) % 3]))

\* Hinge._from_triangles
HingeFromTriangles(triangle1, label_e1, triangle2, label_e2) ==
    LET edge1 == triangle1.edges[label_e1]
        edge2 == triangle2.edges[label_e2]
    IN  IF edge1 # VecNeg(edge2)
        THEN ValueError("Edges are either nonparallel or oriented incorrectly")
        ELSE Hinge(triangle2.edges[(label_e2 + 1) % 3],
                   edge1,
                   VecNeg(triangle1.edges[(label_e1 - 1) % 3]))

\* Hinge.incircle_test
incircle_test(hinge) ==
    LET row(v) == <<v[1], v[2], v[1] * v[1] + v[2] * v[2]>>
    IN  Det3(row(hinge.vectors[1]), row(hinge.vectors[2]), row(hinge.vectors[3]))

\* HalfPlane(a, b, c): the plain tuple, neither a Line nor a Circle
HalfPlaneTuple(a, b, c) == [kind |-> "HalfPlane", a |-> a, b |-> b, c |-> c]

\* Hinge.halfplane
hinge_halfplane(hinge) ==
    LET rowa(v) == <<v[1], v[2], v[2] * v[2]>>
        rowb(v) == <<v[1], v[2], v[1] * v[2]>>
        rowc(v) == <<v[1], v[2], v[1] * v[1]>>
        w == hinge.vectors
        a == Det3(rowa(w[1]), rowa(w[2]), rowa(w[3]))
        b == 2 * Det3(rowb(w[1]), rowb(w[2]), rowb(w[3]))
        c == Det3(rowc(w[1]), rowc(w[2]), rowc(w[3]))
    IN  HalfPlaneTuple(a, b, c)

\* Triangulation.__init__
Triangulation(triangles, gluings, base_ring) ==
    [kind |-> "Triangulation", triangles |-> triangles, gluings |-> gluings,
     base_ring |-> base_ring]

NumTriangles(self) == Cardinality(DOMAIN self.triangles)

\* tuple comparison (t, e) < (t', e')
EdgeLess(e, f) == e[1] < f[1] \/ (e[1] = f[1] /\ e[2] < f[2])

\* itertools.product(range(num_triangles), range(3)), in its order
ProductEdges(num_triangles) == [k \in 1..(3 * num_triangles) |-> <<(k - 1) \div 3, (k - 1) % 3>>]

List(items) == [kind |-> "list", items |-> items]

\* edges() comparing the triangle labels only
edges_by_triangle(self, with_gluings) ==
    LET all == ProductEdges(NumTriangles(self))
        keep(edge) == edge[1] < self.gluings[edge][1]
        reps == SelectSeq(all, keep)
    IN  IF \E k \in DOMAIN all : all[k] \notin DOMAIN self.gluings
        THEN [kind |-> "KeyError"]
        ELSE IF ~with_gluings THEN List(reps)
        ELSE List([k \in DOMAIN reps |-> <<reps[k], self.gluings[reps[k]]>>])

\* Triangulation.edges
edges(self, with_gluings) ==
    LET all == ProductEdges(NumTriangles(self))
        keep(edge) == EdgeLess(edge, self.gluings[edge])
        reps == SelectSeq(all, keep)
    IN  IF \E k \in DOMAIN all : all[k] \notin DOMAIN self.gluings
        THEN [kind |-> "KeyError"]
        ELSE IF ~with_gluings THEN List(reps)
        ELSE List([k \in DOMAIN reps |-> <<reps[k], self.gluings[reps[k]]>>])

\* Triangulation._hinge
hinge_of(self, edge) ==
    LET edge_opposite == self.gluings[edge]
        tri1 == self.triangles[edge[1]]
        tri2 == self.triangles[edge_opposite[1]]
    IN  HingeFromTriangles(tri1, edge[2], tri2, edge_opposite[2])

\* Triangulation.hinges: the list, or the first error raised while building it
hinges(self) ==
    LET reps == edges(self, FALSE)
    IN  IF IsError(reps) THEN reps
        ELSE LET hs == [k \in DOMAIN reps.items |-> hinge_of(self, reps.items[k])]
                 bad == {k \in DOMAIN hs : IsError(hs[k])}
             IN  IF bad # {} THEN hs[CHOOSE k \in bad : \A j \in bad : k <= j]
                 ELSE List(hs)

\* all(test(h) for h in hs[i..]), stopping at the first failure
RECURSIVE AllPositive(_, _, _)
AllPositive(hs, i, strict) ==
    IF i > Len(hs) THEN TRUE
    ELSE IF strict /\ ~(incircle_test(hs[i]) > 0) THEN FALSE
    ELSE IF ~strict /\ ~(incircle_test(hs[i]) >= 0) THEN FALSE
    ELSE AllPositive(hs, i + 1, strict)

\* Triangulation.is_delaunay
is_delaunay(self, strict) ==
    LET hs == hinges(self)
    IN  IF IsError(hs) THEN hs
        ELSE [kind |-> "bool", value |-> AllPositive(hs.items, 1, strict)]

\* the names a HalfPlane tuple answers to (its fields, properties and methods)
HalfPlaneAttributes ==
    {"a", "b", "c", "from_ineq", "is_oriented", "start", "end", "endpoints",
     "_point_inside", "_point_outside", "contains_point", "intersect_boundaries",
     "_intersect_edge_real", "_intersect_edge_ideal", "intersect_edge", "plot"}

\* Triangulation.halfplanes: hinge.halfplane().boundary is looked up for the
\* first hinge, if there is one
halfplanes(self) ==
    LET hs == hinges(self)
    IN  IF IsError(hs) THEN hs
        ELSE IF hs.items = <<>> THEN List({})
        ELSE IF "boundary" \notin HalfPlaneAttributes
        THEN [kind |-> "AttributeError", name |-> "boundary",
              object |-> hinge_halfplane(hs.items[1])]
        ELSE List({hinge_halfplane(hs.items[k]) : k \in DOMAIN hs.items})

\* Triangulation.apply_matrix: the new Triangulation, or the first error a
\* Triangle raised
apply_matrix(self, M) ==
    LET ts == [t \in DOMAIN self.triangles |-> TriangleApplyMatrix(self.triangles[t], M)]
        bad == {t \in DOMAIN ts : IsError(ts[t])}
    IN  IF bad # {} THEN ts[CHOOSE t \in bad : \A j \in bad : t <= j]
        ELSE Triangulation(ts, self.gluings, self.base_ring)

(***************************************************************************)
(* State.                                                                  *)
(*   coeffs, hp, query      a coefficient triple, the half-plane from_ineq *)
(*                          made of it, and the last call on it            *)
(*   edge, clipper, clipped, nclips                                        *)
(*                          an edge, the half-plane last asked to clip it, *)
(*                          what intersect_edge returned, and the number   *)
(*                          of clips so far                                *)
(*   triangles, gluings     the triangle list and the gluing dict while    *)
(*                          they are being filled (_from_flatsurf)         *)
(*   surface, tcall         a Triangulation, and the last call on it with  *)
(*                          what it returned or raised                     *)
(***************************************************************************)
VARIABLES coeffs, hp, query, edge, clipper, clipped, nclips,
          triangles, gluings, surface, tcall

hpVars == <<coeffs, hp, query>>

clipVars == <<edge, clipper, clipped, nclips>>

triVars == <<triangles, gluings, surface, tcall>>

vars == <<coeffs, hp, query, edge, clipper, clipped, nclips,
          triangles, gluings, surface, tcall>>

Coefs == -CoefMax..CoefMax

Triples == Coefs \X Coefs \X Coefs

\* the half-planes from_ineq makes of the triples
HalfPlanes == {h \in {from_ineq(t[1], t[2], t[3]) : t \in Triples} : IsHalfPlane(h)}

\* the points on the real axis with a whole u, and oo
BasicPoints == {Point(Q(n), Zero) : n \in -PointMax..PointMax} \cup {PointInfinity}

NoCall == [op |-> "none"]

(***************************************************************************)
(* SpecHalfPlane: from_ineq applied to a triple, then one call on the      *)
(* result (the calls are pure: none changes the half-plane).               *)
(***************************************************************************)
ClipIdle ==
    /\ edge = None
    /\ clipper = None
    /\ clipped = NoCall
    /\ nclips = 0

TriIdle ==
    /\ triangles = <<>>
    /\ gluings = <<>>
    /\ surface = None
    /\ tcall = NoCall

HPInit ==
    /\ coeffs \in Triples
    /\ hp = None
    /\ query = NoCall
    /\ ClipIdle
    /\ TriIdle

\* hp = HalfPlane.from_ineq(a, b, c)
FromIneq ==
    /\ hp = None
    /\ hp' = from_ineq(coeffs[1], coeffs[2], coeffs[3])
    /\ UNCHANGED <<coeffs, query, clipVars, triVars>>

\* hp.is_oriented, hp.start, hp.end
Endpoints ==
    /\ IsHalfPlane(hp) /\ query = NoCall
    /\ query' = [op |-> "endpoints", is_oriented |-> is_oriented(hp),
                 start |-> start(hp), end |-> end(hp)]
    /\ UNCHANGED <<coeffs, hp, clipVars, triVars>>

\* hp._point_inside, hp._point_outside
Witnesses ==
    /\ IsHalfPlane(hp) /\ query = NoCall
    /\ query' = [op |-> "witnesses", inside |-> point_inside(hp),
                 outside |-> point_outside(hp)]
    /\ UNCHANGED <<coeffs, hp, clipVars, triVars>>

\* hp.contains_point(p, on_boundary)
ContainsPoint ==
    /\ IsHalfPlane(hp) /\ query = NoCall
    /\ \E p \in BasicPoints \cup {start(hp), end(hp), point_inside(hp), point_outside(hp)},
          on_boundary \in BOOLEAN :
          query' = [op |-> "contains_point", point |-> p, on_boundary |-> on_boundary,
                    ret |-> contains_point(hp, p, on_boundary)]
    /\ UNCHANGED <<coeffs, hp, clipVars, triVars>>

\* hp.intersect_boundaries(other)
IntersectBoundaries ==
    /\ IsHalfPlane(hp) /\ query = NoCall
    /\ \E other \in HalfPlanes :
          query' = [op |-> "intersect_boundaries", other |-> other,
                    ret |-> intersect_boundaries(hp, other)]
    /\ UNCHANGED <<coeffs, hp, clipVars, triVars>>

HPNext ==
    \/ FromIneq
    \/ Endpoints
    \/ Witnesses
    \/ ContainsPoint
    \/ IntersectBoundaries

SpecHalfPlane == HPInit /\ [][HPNext]_vars

(***************************************************************************)
(* Claims on the half-plane (SpecHalfPlane).                               *)
(***************************************************************************)
Disc(t) == t[2] * t[2] - 4 * t[1] * t[3]

\* C1: from_ineq(a,b,c) returns a Line iff a = 0 and b # 0, a Circle iff a # 0
\* and b^2 - 4ac > 0, and in every other case (a = b = 0, or a # 0 with
\* b^2 - 4ac <= 0, such as (0,0,1) and (1,0,1)) fails with the degenerate
\* half-plane error and returns no half-plane.
C1_FromIneqClassifies ==
    hp # None =>
        /\ hp.kind \in {"Line", "Circle", "ValueError"}
        /\ (hp.kind = "Line") <=> (coeffs[1] = 0 /\ coeffs[2] # 0)
        /\ (hp.kind = "Circle") <=> (coeffs[1] # 0 /\ Disc(coeffs) > 0)
        /\ (hp.kind = "ValueError") <=>
               \/ coeffs[1] = 0 /\ coeffs[2] = 0
               \/ coeffs[1] # 0 /\ Disc(coeffs) <= 0
        /\ hp.kind = "ValueError" => hp.msg = "Coeffs determine a degenerate inequality"
        /\ hp.kind # "ValueError" => <<hp.a, hp.b, hp.c>> = coeffs
        /\ coeffs \in {<<0, 0, 1>>, <<1, 0, 1>>} => hp.kind = "ValueError"

\* C1: from_ineq(1, 0, 1), discriminant -4, has failed
C1_Witness == coeffs = <<1, 0, 1>> /\ hp.kind = "ValueError"

\* C3 as stated: intersect_boundaries(h, h) is "no intersection" (None) for
\* every half-plane h, Line or Circle.
C3_SelfIntersectionIsNone ==
    (query.op = "intersect_boundaries" /\ query.other = hp) => query.ret = None

\* C3 amended: intersect_boundaries(h, h) is None for every Circle h (the
\* matrix [[a, b], [a, b]] is singular); for every Line h it is the point at
\* infinity, because two Lines are answered before the matrix is looked at.
C3_SelfIntersection ==
    (query.op = "intersect_boundaries" /\ query.other = hp) =>
        /\ hp.a * hp.b - hp.b * hp.a = 0
        /\ hp.kind = "Circle" => query.ret = None
        /\ hp.kind = "Line" => query.ret = PointInfinity

\* C3: a Circle has been intersected with itself
C3_Witness ==
    query.op = "intersect_boundaries" /\ query.other = hp /\ hp.kind = "Circle"
        /\ query.ret = None

\* C7: for a Line (a = 0, b # 0): is_oriented iff b < 0; exactly one of start
\* and end is the point at infinity and the other is the real point (-c/b, 0),
\* start being the real one iff the line is oriented; the real endpoint is
\* contained with on_boundary=True and the point at infinity is contained with
\* on_boundary False and True.  from_ineq(0,-1,2): start = (2,0), end = (oo,0),
\* (1,0) is contained and (3,0) is not.
C7_LineEndpoints ==
    hp.kind = "Line" =>
        LET real == Point(Frac(-coeffs[3], coeffs[2]), Zero)
        IN  /\ query.op = "endpoints" =>
                /\ query.is_oriented <=> coeffs[2] < 0
                /\ (query.start = PointInfinity) # (query.end = PointInfinity)
                /\ query.is_oriented => (query.start = real /\ query.end = PointInfinity)
                /\ ~query.is_oriented => (query.end = real /\ query.start = PointInfinity)
                /\ coeffs = <<0, -1, 2>> =>
                       (query.start = Point(Q(2), Zero) /\ query.end = PointInfinity)
            /\ query.op = "contains_point" =>
                /\ (query.point = real /\ query.on_boundary) => query.ret
                /\ query.point = PointInfinity => query.ret
                /\ (coeffs = <<0, -1, 2>> /\ ~query.on_boundary) =>
                    /\ query.point = Point(Q(1), Zero) => query.ret
                    /\ query.point = Point(Q(3), Zero) => ~query.ret
                /\ (coeffs = <<0, -1, 2>> /\ query.on_boundary) =>
                    (query.point = Point(Q(2), Zero) => query.ret)

\* C7: the Line of from_ineq(0, -1, 2) has been asked for (3, 0)
C7_Witness ==
    /\ coeffs = <<0, -1, 2>> /\ hp.kind = "Line"
    /\ query.op = "contains_point" /\ ~query.on_boundary
    /\ query.point = Point(Q(3), Zero) /\ ~query.ret

\* C10: for every half-plane from_ineq returns, contains_point(_point_inside)
\* is true and contains_point(_point_outside) is false; for a Circle
\* is_oriented holds exactly when a < 0, the inside witness being the center
\* for a < 0 and the point one unit beyond the larger boundary endpoint for
\* a > 0.
C10_WitnessSides ==
    IsHalfPlane(hp) =>
        LET c0 == Frac(-coeffs[2], 2 * coeffs[1])
            r2 == Frac(Disc(coeffs), 4 * coeffs[1] * coeffs[1])
            beyond == PointRadical(Radical(RAdd(c0, One), One, r2), Zero)
        IN  /\ (query.op = "contains_point" /\ ~query.on_boundary) =>
                /\ query.point = point_inside(hp) => query.ret
                /\ query.point = point_outside(hp) => ~query.ret
            /\ (query.op = "endpoints" /\ hp.kind = "Circle") =>
                   (query.is_oriented <=> coeffs[1] < 0)
            /\ (query.op = "witnesses" /\ hp.kind = "Circle") =>
                /\ coeffs[1] < 0 => query.inside = Point(c0, Zero) /\ query.outside = beyond
                /\ coeffs[1] > 0 => query.inside = beyond /\ query.outside = Point(c0, Zero)

\* C10: an unoriented Circle (a > 0) has been asked for its inside witness
C10_Witness ==
    /\ hp.kind = "Circle" /\ coeffs[1] > 0
    /\ query.op = "contains_point" /\ ~query.on_boundary
    /\ query.point = point_inside(hp) /\ query.ret

(***************************************************************************)
(* SpecClip: an edge (the whole boundary geodesic of a half-plane, or an   *)
(* ideal arc between two boundary points) is clipped by a half-plane, and  *)
(* an edge of the result may be clipped again, as when a polygon is cut by *)
(* one half-plane after another.                                           *)
(***************************************************************************)
ClipCoefs == -ClipCoefMax..ClipCoefMax

ClipHalfPlanes ==
    {h \in {from_ineq(a, b, c) : a \in ClipCoefs, b \in ClipCoefs, c \in ClipCoefs} :
        IsHalfPlane(h)}

ClipPoints == {Point(Q(n), Zero) : n \in -ClipPointMax..ClipPointMax} \cup {PointInfinity}

RealEdges == {Edge(h, start(h), end(h)) : h \in ClipHalfPlanes}

IdealEdges ==
    {e \in {Edge(None, p, q) : p \in ClipPoints, q \in ClipPoints} : e.start # e.end}

HPIdle ==
    /\ coeffs = <<0, 0, 0>>
    /\ hp = None
    /\ query = NoCall

ClipInit ==
    /\ edge \in RealEdges \cup IdealEdges
    /\ clipper = None
    /\ clipped = NoCall
    /\ nclips = 0
    /\ HPIdle
    /\ TriIdle

\* clipped = h.intersect_edge(edge)
IntersectEdge ==
    /\ clipped = NoCall /\ nclips < MaxClips
    /\ \E h \in ClipHalfPlanes :
          /\ clipper' = h
          /\ clipped' = [op |-> "intersect_edge", ret |-> intersect_edge(h, edge)]
    /\ nclips' = nclips + 1
    /\ UNCHANGED <<edge, hpVars, triVars>>

\* the caller goes on with an edge of the result; an edge whose clipped end
\* is None (no intersection) is not an edge between two Points and is dropped
TakeEdge ==
    /\ clipped # NoCall
    /\ \E i \in 1..Len(clipped.ret) :
          /\ clipped.ret[i].start # None /\ clipped.ret[i].end # None
          /\ edge' = clipped.ret[i]
    /\ clipper' = None
    /\ clipped' = NoCall
    /\ UNCHANGED <<nclips, hpVars, triVars>>

ClipNext ==
    \/ IntersectEdge
    \/ TakeEdge

SpecClip == ClipInit /\ [][ClipNext]_vars

(***************************************************************************)
(* Claims on edge clipping (SpecClip).                                     *)
(***************************************************************************)
Clipped == clipped # NoCall

\* C2: for a real edge, intersect_edge returns the one-element sequence of
\* the edge itself when hp contains both endpoints, the empty sequence when
\* it contains neither, and, when it contains exactly one, exactly one new
\* Edge that keeps the owning half-plane, keeps the contained endpoint in its
\* place (start stays start, end stays end) and has
\* hp.intersect_boundaries(owner) as the other endpoint.
C2_RealEdgeClip ==
    (Clipped /\ ~is_ideal(edge)) =>
        LET cs == contains_point(clipper, edge.start, FALSE)
            ce == contains_point(clipper, edge.end, FALSE)
            ip == intersect_boundaries(clipper, edge.halfplane)
            out == clipped.ret
        IN  /\ (cs /\ ce) => out = <<edge>>
            /\ (~cs /\ ~ce) => out = <<>>
            /\ (cs # ce) =>
                /\ Len(out) = 1
                /\ out[1].kind = "Edge"
                /\ out[1].halfplane = edge.halfplane
                /\ cs => (out[1].start = edge.start /\ out[1].end = ip)
                /\ ce => (out[1].end = edge.end /\ out[1].start = ip)

\* C2: a real edge whose start alone is contained has been cut at a point
C2_Witness ==
    /\ Clipped /\ ~is_ideal(edge)
    /\ contains_point(clipper, edge.start, FALSE)
    /\ ~contains_point(clipper, edge.end, FALSE)
    /\ Len(clipped.ret) = 1
    /\ clipped.ret[1].start = edge.start
    /\ clipped.ret[1].end # None /\ clipped.ret[1].end # edge.end

\* C9: for an ideal edge, intersect_edge returns 0 to 2 edges, all ideal:
\* both endpoints contained -> the edge if CCW(start, end, outside witness),
\* else the arcs (edge.start -> hp.start) and (hp.end -> edge.end); only
\* edge.start contained -> (edge.start -> hp.start); only edge.end contained
\* -> (hp.end -> edge.end); neither -> nothing if CCW(start, end, inside
\* witness), else the arc (hp.end -> hp.start).
C9_IdealEdgeClip ==
    (Clipped /\ is_ideal(edge)) =>
        LET cs == contains_point(clipper, edge.start, FALSE)
            ce == contains_point(clipper, edge.end, FALSE)
            out == clipped.ret
            arc(p, q) == [kind |-> "Edge", halfplane |-> None, start |-> p, end |-> q]
        IN  /\ Len(out) \in 0..2
            /\ \A i \in 1..Len(out) : out[i].halfplane = None
            /\ (cs /\ ce) =>
                   out = IF CCW(edge.start, edge.end, point_outside(clipper))
                         THEN <<edge>>
                         ELSE <<arc(edge.start, start(clipper)), arc(end(clipper), edge.end)>>
            /\ (cs /\ ~ce) => out = <<arc(edge.start, start(clipper))>>
            /\ (~cs /\ ce) => out = <<arc(end(clipper), edge.end)>>
            /\ (~cs /\ ~ce) =>
                   out = IF CCW(edge.start, edge.end, point_inside(clipper))
                         THEN <<>>
                         ELSE <<arc(end(clipper), start(clipper))>>

\* C9: an ideal edge with both endpoints contained has been split in two arcs
C9_Witness ==
    /\ Clipped /\ is_ideal(edge)
    /\ contains_point(clipper, edge.start, FALSE)
    /\ contains_point(clipper, edge.end, FALSE)
    /\ ~CCW(edge.start, edge.end, point_outside(clipper))
    /\ Len(clipped.ret) = 2

(***************************************************************************)
(* SpecGluing: the triangle list and the gluing dict are filled as         *)
(* _from_flatsurf fills them (every triangle, then the gluing of every     *)
(* edge, each pair in both directions), the Triangulation is made of them  *)
(* and edges() is called.                                                  *)
(***************************************************************************)
\* the two triangles of the unit square split by its diagonal
LowerTriangle == TriangleInit([i \in 0..2 |-> <<<<1, 0>>, <<0, 1>>, <<-1, -1>>>>[i + 1]])

UpperTriangle == TriangleInit([i \in 0..2 |-> <<<<-1, 0>>, <<0, -1>>, <<1, 1>>>>[i + 1]])

AllEdges(n) == (0..(n - 1)) \X (0..2)

Unglued == AllEdges(Cardinality(DOMAIN triangles)) \ DOMAIN gluings

GluingInit ==
    /\ triangles = <<>>
    /\ gluings = <<>>
    /\ surface = None
    /\ tcall = NoCall
    /\ HPIdle
    /\ ClipIdle

\* triangles.append(Triangle(...))
AddTriangle ==
    /\ surface = None /\ gluings = <<>>
    /\ Cardinality(DOMAIN triangles) < MaxGlued
    /\ LET n == Cardinality(DOMAIN triangles)
           new == IF n % 2 = 0 THEN LowerTriangle ELSE UpperTriangle
       IN  triangles' = [t \in 0..n |-> IF t < n THEN triangles[t] ELSE new]
    /\ UNCHANGED <<gluings, surface, tcall, hpVars, clipVars>>

\* gluings[e] = f and gluings[f] = e, for the first edge e not glued yet
Glue ==
    /\ surface = None /\ Unglued # {}
    /\ LET e == CHOOSE x \in Unglued : \A y \in Unglued : x = y \/ EdgeLess(x, y)
       IN  \E f \in Unglued \ {e} :
              gluings' = [x \in DOMAIN gluings \cup {e, f} |->
                             IF x = e THEN f ELSE IF x = f THEN e ELSE gluings[x]]
    /\ UNCHANGED <<triangles, surface, tcall, hpVars, clipVars>>

\* Triangulation(triangles, gluings, ring), once every edge is glued
Construct ==
    /\ surface = None /\ Unglued = {}
    /\ surface' = Triangulation(triangles, gluings, "QQ")
    /\ UNCHANGED <<triangles, gluings, tcall, hpVars, clipVars>>

\* surface.edges(gluings=flag)
Edges ==
    /\ surface # None /\ tcall = NoCall
    /\ \E flag \in BOOLEAN :
          tcall' = [op |-> "edges", gluings |-> flag, ret |-> edges(surface, flag)]
    /\ UNCHANGED <<triangles, gluings, surface, hpVars, clipVars>>

GluingNext ==
    \/ AddTriangle
    \/ Glue
    \/ Construct
    \/ Edges

SpecGluing == GluingInit /\ [][GluingNext]_vars

\* the gluing map is a fixed-point-free involution on all (triangle, edge) pairs
IsGluingInvolution(self) ==
    /\ DOMAIN self.gluings = AllEdges(NumTriangles(self))
    /\ \A e \in DOMAIN self.gluings :
          /\ self.gluings[e] \in DOMAIN self.gluings
          /\ self.gluings[e] # e
          /\ self.gluings[self.gluings[e]] = e

\* C4: when the gluing map is a fixed-point-free involution on all pairs,
\* edges() lists exactly one representative of each glued pair {e, gluing[e]},
\* the lexicographically smaller one, no pair missing or listed twice, so
\* len(edges()) = 3n/2; edges(gluings=True) lists the same representatives,
\* each paired with its gluing image.
C4_EdgesOnePerPair ==
    (tcall.op = "edges" /\ IsGluingInvolution(surface)) =>
        LET g == surface.gluings
            out == tcall.ret.items
            rep(k) == IF tcall.gluings THEN out[k][1] ELSE out[k]
            smaller(e) == IF EdgeLess(e, g[e]) THEN e ELSE g[e]
        IN  /\ tcall.ret.kind = "list"
            /\ 2 * Len(out) = 3 * NumTriangles(surface)
            /\ \A k \in DOMAIN out : rep(k) \in DOMAIN g /\ rep(k) = smaller(rep(k))
            /\ \A e \in DOMAIN g :
                  Cardinality({k \in DOMAIN out : rep(k) \in {e, g[e]}}) = 1
            /\ tcall.gluings => \A k \in DOMAIN out : out[k] = <<rep(k), g[rep(k)]>>

\* C4: edges(gluings=True) on four triangles, edge (0,0) glued within triangle 0
C4_Witness ==
    /\ tcall.op = "edges" /\ IsGluingInvolution(surface)
    /\ NumTriangles(surface) = 4
    /\ surface.gluings[<<0, 0>>] = <<0, 2>>
    /\ tcall.gluings
    /\ Len(tcall.ret.items) = 6

(***************************************************************************)
(* SpecSurface: a Triangulation of the torus (the unit square split by a   *)
(* diagonal, as Triangulation.square_torus() makes it, under each labelling *)
(* of the second triangle's edges and each gluing of edge i to edge i + j) *)
(* or the empty Triangulation; the calls on it; apply_matrix, whose result *)
(* may become the Triangulation the next calls are made on.                *)
(***************************************************************************)
\* the triangle with its edges relabelled: edge i is the old edge i + k
Relabel(triangle, k) ==
    [kind |-> "Triangle", edges |-> [i \in 0..2 |-> triangle.edges[(i + k) % 3]]]

TwoTriangles(t0, t1) == [t \in 0..1 |-> IF t = 0 THEN t0 ELSE t1]

\* (0, i) <-> (1, i + j)
RotationGluing(j) ==
    [e \in AllEdges(2) |->
        IF e[1] = 0 THEN <<1, (e[2] + j) % 3>> ELSE <<0, (e[2] + 3 - j) % 3>>]

\* Triangulation.square_torus()
SquareTorus ==
    Triangulation(TwoTriangles(LowerTriangle, UpperTriangle), RotationGluing(0), "QQ")

Seeds ==
    {Triangulation(TwoTriangles(LowerTriangle, Relabel(UpperTriangle, k)),
                   RotationGluing(j), "QQ") : k \in 0..2, j \in 0..2}
    \cup {Triangulation(<<>>, <<>>, "QQ")}

Coords == -VecMax..VecMax

Vecs == Coords \X Coords

Entries == -MatMax..MatMax

Matrices == {<<<<a, b>>, <<c, d>>>> : a \in Entries, b \in Entries, c \in Entries, d \in Entries}

MatDet(M) == M[1][1] * M[2][2] - M[1][2] * M[2][1]

SurfaceInit ==
    /\ surface \in Seeds
    /\ triangles = <<>>
    /\ gluings = <<>>
    /\ tcall = NoCall
    /\ HPIdle
    /\ ClipIdle

\* Triangle([v0, v1, v2]): triangles are made before a Triangulation holds them
NewTriangle ==
    /\ tcall = NoCall /\ NumTriangles(surface) = 0
    /\ \E v0 \in Vecs, v1 \in Vecs, v2 \in Vecs :
          LET es == [i \in 0..2 |-> <<v0, v1, v2>>[i + 1]]
          IN  tcall' = [op |-> "Triangle", edges |-> es, ret |-> TriangleInit(es)]
    /\ UNCHANGED <<triangles, gluings, surface, hpVars, clipVars>>

\* surface.apply_matrix(M)
ApplyMatrix ==
    /\ tcall = NoCall
    /\ \E M \in Matrices :
          tcall' = [op |-> "apply_matrix", M |-> M, self |-> surface,
                    ret |-> apply_matrix(surface, M)]
    /\ UNCHANGED <<triangles, gluings, surface, hpVars, clipVars>>

\* surface = surface.apply_matrix(M), while the vectors stay within VecMax
Adopt ==
    /\ tcall.op = "apply_matrix" /\ tcall.ret.kind = "Triangulation"
    /\ \A t \in DOMAIN tcall.ret.triangles, i \in 0..2 :
          tcall.ret.triangles[t].edges[i] \in Vecs
    /\ surface' = tcall.ret
    /\ tcall' = NoCall
    /\ UNCHANGED <<triangles, gluings, hpVars, clipVars>>

\* surface.edges(gluings=flag)
SurfaceEdges ==
    /\ tcall = NoCall
    /\ \E flag \in BOOLEAN :
          tcall' = [op |-> "edges", gluings |-> flag, ret |-> edges(surface, flag)]
    /\ UNCHANGED <<triangles, gluings, surface, hpVars, clipVars>>

\* surface.is_delaunay(strict)
IsDelaunay ==
    /\ tcall = NoCall
    /\ \E strict \in BOOLEAN :
          tcall' = [op |-> "is_delaunay", strict |-> strict,
                    ret |-> is_delaunay(surface, strict)]
    /\ UNCHANGED <<triangles, gluings, surface, hpVars, clipVars>>

\* surface.halfplanes()
Halfplanes ==
    /\ tcall = NoCall
    /\ tcall' = [op |-> "halfplanes", ret |-> halfplanes(surface)]
    /\ UNCHANGED <<triangles, gluings, surface, hpVars, clipVars>>

SurfaceNext ==
    \/ NewTriangle
    \/ ApplyMatrix
    \/ Adopt
    \/ SurfaceEdges
    \/ IsDelaunay
    \/ Halfplanes

SpecSurface == SurfaceInit /\ [][SurfaceNext]_vars

(***************************************************************************)
(* Claims on the triangulation (SpecSurface).                              *)
(***************************************************************************)
\* the canonical edges: the smaller of each glued pair
CanonicalEdges(self) ==
    {e \in AllEdges(NumTriangles(self)) : EdgeLess(e, self.gluings[e])}

\* every glued pair of edge vectors is a vector and its negation, so that
\* every hinge can be built
GluingMatches(self) ==
    \A e \in AllEdges(NumTriangles(self)) :
        self.triangles[e[1]].edges[e[2]]
            = VecNeg(self.triangles[self.gluings[e][1]].edges[self.gluings[e][2]])

\* the hinge vectors of edge (t1, e1) glued to (t2, e2), as the claim gives them
HingeVectors(self, e) ==
    LET t1 == self.triangles[e[1]]
        t2 == self.triangles[self.gluings[e][1]]
        e1 == e[2]
        e2 == self.gluings[e][2]
    IN  <<t2.edges[(e2 + 1) % 3], t1.edges[e1], VecNeg(t1.edges[(e1 + 2) % 3])>>

\* the determinant of the rows [x, y, x^2 + y^2]
IncircleDet(w) ==
    Det3(<<w[1][1], w[1][2], w[1][1] * w[1][1] + w[1][2] * w[1][2]>>,
         <<w[2][1], w[2][2], w[2][1] * w[2][1] + w[2][2] * w[2][2]>>,
         <<w[3][1], w[3][2], w[3][1] * w[3][1] + w[3][2] * w[3][2]>>)

\* C5: is_delaunay(strict=False) is true iff incircle_test() >= 0 for the
\* hinge of every canonical edge, and is_delaunay(strict=True) iff it is > 0
\* for every such hinge, the hinge of (t1,e1) glued to (t2,e2) having the
\* vectors (t2.edges[e2+1], t1.edges[e1], -t1.edges[e1-1]) and incircle_test
\* being the determinant of the rows [x, y, x^2+y^2]; on the square torus the
\* non-strict result is true and the strict one false, the diagonal hinge's
\* determinant being exactly zero.  (Stated of the triangulations whose glued
\* edges match, the others having no hinges.)
C5_IsDelaunay ==
    (tcall.op = "is_delaunay" /\ GluingMatches(surface)) =>
        /\ tcall.ret.kind = "bool"
        /\ ~tcall.strict =>
               (tcall.ret.value <=>
                   \A e \in CanonicalEdges(surface) : IncircleDet(HingeVectors(surface, e)) >= 0)
        /\ tcall.strict =>
               (tcall.ret.value <=>
                   \A e \in CanonicalEdges(surface) : IncircleDet(HingeVectors(surface, e)) > 0)
        /\ surface = SquareTorus =>
               /\ tcall.ret.value <=> ~tcall.strict
               /\ IncircleDet(HingeVectors(surface, <<0, 2>>)) = 0

\* C5: is_delaunay(strict=True) has answered False on the square torus
C5_Witness ==
    /\ tcall.op = "is_delaunay" /\ surface = SquareTorus
    /\ tcall.strict /\ tcall.ret = [kind |-> "bool", value |-> FALSE]

\* the coefficient triple of Hinge.halfplane() for hinge vectors w
HingeTriple(w) ==
    <<Det3(<<w[1][1], w[1][2], w[1][2] * w[1][2]>>,
           <<w[2][1], w[2][2], w[2][2] * w[2][2]>>,
           <<w[3][1], w[3][2], w[3][2] * w[3][2]>>),
      2 * Det3(<<w[1][1], w[1][2], w[1][1] * w[1][2]>>,
               <<w[2][1], w[2][2], w[2][1] * w[2][2]>>,
               <<w[3][1], w[3][2], w[3][1] * w[3][2]>>),
      Det3(<<w[1][1], w[1][2], w[1][1] * w[1][1]>>,
           <<w[2][1], w[2][2], w[2][1] * w[2][1]>>,
           <<w[3][1], w[3][2], w[3][1] * w[3][1]>>)>>

\* C6: halfplanes() returns, without raising, a duplicate-free collection of
\* exactly the half-planes of the canonical-edge hinges whose triple (a,b,c)
\* from Hinge.halfplane() is non-degenerate (a Line or a Circle as from_ineq
\* classifies it): a degenerate triple contributes nothing and equal triples
\* contribute one half-plane.
C6_HalfplanesOfHinges ==
    (tcall.op = "halfplanes" /\ GluingMatches(surface)) =>
        /\ tcall.ret.kind = "list"
        /\ tcall.ret.items =
               {h \in {LET t == HingeTriple(HingeVectors(surface, e))
                       IN  from_ineq(t[1], t[2], t[3]) : e \in CanonicalEdges(surface)} :
                   IsHalfPlane(h)}

IsValidTriangle(t) ==
    /\ t.kind = "Triangle"
    /\ VecAdd(VecAdd(t.edges[0], t.edges[1]), t.edges[2]) = <<0, 0>>
    /\ Det2(t.edges[0], VecNeg(t.edges[2])) > 0

\* C8: every Triangle that exists has edges summing to (0,0) and
\* det([edges[0], -edges[2]]) > 0, whatever constructions and apply_matrix
\* calls were made: the constructor fails with the non-closing error when the
\* vectors do not sum to zero and with the wrong-orientation error when the
\* determinant is <= 0 (as for (0,1),(1,0),(-1,-1)); apply_matrix(M) either
\* returns a new Triangulation whose triangles are the M-images of the
\* originals, with the same gluing map and base ring, the original being left
\* as it was, or (when det M <= 0) fails with the wrong-orientation error.
C8_TrianglesStayValid ==
    /\ surface.kind = "Triangulation"
    /\ \A t \in DOMAIN surface.triangles : IsValidTriangle(surface.triangles[t])
    /\ tcall.op = "Triangle" =>
        LET es == tcall.edges
            closes == VecAdd(VecAdd(es[0], es[1]), es[2]) = <<0, 0>>
            det == Det2(es[0], VecNeg(es[2]))
        IN  /\ ~closes => tcall.ret = ValueError("sides do not close up")
            /\ (closes /\ det <= 0) => tcall.ret = ValueError("sides are not oriented correctly")
            /\ (closes /\ det > 0) => (IsValidTriangle(tcall.ret) /\ tcall.ret.edges = es)
            /\ (es[0] = <<0, 1>> /\ es[1] = <<1, 0>> /\ es[2] = <<-1, -1>>) =>
                   tcall.ret = ValueError("sides are not oriented correctly")
    /\ tcall.op = "apply_matrix" =>
        /\ surface = tcall.self
        /\ \/ /\ tcall.ret.kind = "Triangulation"
              /\ DOMAIN tcall.ret.triangles = DOMAIN surface.triangles
              /\ \A t \in DOMAIN surface.triangles :
                    /\ IsValidTriangle(tcall.ret.triangles[t])
                    /\ \A i \in 0..2 :
                          tcall.ret.triangles[t].edges[i]
                              = MatVec(tcall.M, surface.triangles[t].edges[i])
              /\ tcall.ret.gluings = surface.gluings
              /\ tcall.ret.base_ring = surface.base_ring
           \/ /\ MatDet(tcall.M) <= 0
              /\ tcall.ret = ValueError("sides are not oriented correctly")
        /\ (MatDet(tcall.M) <= 0 /\ NumTriangles(surface) > 0) => tcall.ret.kind = "ValueError"

\* C8: a matrix of determinant 2 has been applied to a sheared torus
C8_Witness ==
    /\ tcall.op = "apply_matrix" /\ tcall.ret.kind = "Triangulation"
    /\ MatDet(tcall.M) = 2
    /\ surface # SquareTorus /\ NumTriangles(surface) = 2

====
